---- MODULE Spec2Model ----
(***************************************************************************)
(* A model of PPO-BiHyb/dag_ppo_single_train.py: the batch state container *)
(* (ItemsContainer), the trajectory buffer (Memory), the PPO optimizer     *)
(* (PPO.update) and the training driver (main), as one state machine.      *)
(*                                                                         *)
(* The networks (ActorNet, CriticNet, GraphEncoder) and the environment    *)
(* (DAGraph.step_e2e) are not part of the file.  A parameter set is a      *)
(* version number that every optimizer step increments, with a mark of     *)
(* whether the weights are finite; the outputs of a network are functions  *)
(* of the parameters and of its inputs; what the environment returns is    *)
(* chosen freely from small sets.                                          *)
(***************************************************************************)
EXTENDS Integers, Sequences, FiniteSets, TLC

\* ------------------------------------------------------------ bounds
MaxEpisodes == 2
MaxTimesteps == 2
\* The longest window the return recursion is run on by itself.
MaxWindow == 3
\* The surrogate is computed for ratios 1/RatioDen .. MaxRatio/RatioDen, for
\* advantages -MaxAdvantage .. MaxAdvantage and eps_clip k/RatioDen.
RatioDen == 10
MaxRatio == 25
MaxAdvantage == 3

\* The configurations (argparse options) the driver is run with.
BatchSizes == {1, 2}
UpdateTimesteps == {1, 2}
KEpochs == {1, 2}
\* What the environment may return as a reward, and the training set's size.
RewardVals == {0, 1}
NumGraphs == 2

\* gamma as a fraction: 1/2, the value of the spec's scripted scenario.
gamma == [num |-> 1, den |-> 2]

VARIABLES
    args,          \* the parsed options main() reads
    pc,            \* the driver's position in main() / PPO.update()
    i_episode,     \* main: i_episode
    t,             \* main: t
    timestep,      \* main: timestep, never reset
    items_batch,   \* main: items_batch, an ItemsContainer
    memory,        \* main: memory, a Memory
    action_batch,  \* main: action_batch, the actions of this timestep
    calls,         \* main: the arguments step_func_feeder yields, one per slot
    step_list,     \* main: the results of step_e2e, <<>> before a call returns
    policy,        \* ppo.policy: its parameters
    policy_old,    \* ppo.policy_old: its parameters
    discounted_reward, \* PPO.update: the running discounted reward, shape B
    rewards,       \* PPO.update: the returns, one vector per timestep
    epoch,         \* PPO.update: epochs done
    ratios,        \* PPO.update: logprobs - old_logprobs of the last epoch
    lr_steps,      \* lr_scheduler: step() calls
    consumed,      \* history: how many update calls read each timestep's record
    n_updates,     \* history: PPO.update calls returned
    n_clears,      \* history: clear_memory calls
    snap,          \* a caller of ItemsContainer: the snapshot an accessor returned
    call,          \* history: the caller's last call and its arguments
    cfg,           \* parse_arguments: the config file, the namespace, the position
    summary_writer,  \* main: the tensorboard writer, or NoWriter for None
    sink,          \* history: the number of scalars written to summary_writer
    best_test_ratio,  \* main
    evals,         \* history: the mean ratio of every evaluation so far
    saved,         \* history: the mean ratio of every checkpoint written so far
    surr           \* PPO.update: one element of ratios, advantages, surr1, surr2

vars == <<args, pc, i_episode, t, timestep, items_batch, memory, action_batch,
          calls, step_list, policy, policy_old, discounted_reward, rewards, epoch,
          ratios, lr_steps, consumed, n_updates, n_clears, snap, call, cfg, surr,
          summary_writer, sink, best_test_ratio, evals, saved>>

driverVars == <<i_episode, t, timestep, items_batch, action_batch, calls, step_list>>
policyVars == <<policy, policy_old, lr_steps>>
updateVars == <<discounted_reward, rewards, epoch, ratios>>
historyVars == <<consumed, n_updates, n_clears>>
callerVars == <<snap, call>>
\* What the driver and PPO.update leave alone at every step.
evalVars == <<summary_writer, sink, best_test_ratio, evals, saved>>
otherVars == <<snap, call, cfg, surr, evalVars>>

\* ------------------------------------------------------------ float32
\* A float32 value: a finite multiple of 1/Unit, an infinity or a NaN.
RECURSIVE Pow(_, _)
Pow(b, e) == IF e = 0 THEN 1 ELSE b * Pow(b, e - 1)
Unit == Pow(gamma.den, MaxWindow + 1)
Fin(n) == [k |-> "fin", v |-> n]
Inf == [k |-> "inf", v |-> 0]
NaN == [k |-> "nan", v |-> 0]

\* torch.tensor(reward, dtype=torch.float32) of a list of Python numbers.
RewardTensor(reward) == [b \in DOMAIN reward |-> Fin(reward[b] * Unit)]

\* A mask that lets the carried value through.
MulMaskNone(x, is_terminal) == x

\* x * (1 - torch.tensor(is_terminal, dtype=torch.float32)): an IEEE
\* multiplication by 1.0 or by 0.0.
MulMask(x, is_terminal) ==
    IF ~is_terminal THEN x
    ELSE IF x.k = "fin" THEN Fin(0) ELSE NaN

\* self.gamma * x, with 0 < gamma.
MulGamma(x) ==
    IF x.k = "fin" THEN Fin((x.v * gamma.num) \div gamma.den) ELSE x

\* reward + x, reward finite.
AddF(r, x) ==
    IF x.k = "fin" THEN Fin(r.v + x.v) ELSE x

\* ------------------------------------------------------------ ItemsContainer
Fields == {"reward", "inp_graph", "makespan", "node_candidates", "done"}

\* ItemsContainer.__init__: five empty lists.
NewContainer ==
    [reward |-> <<>>, inp_graph |-> <<>>, makespan |-> <<>>,
     node_candidates |-> <<>>, done |-> <<>>]

\* ItemsContainer.append
ContainerAppend(c, reward, inp_graph, makespan, node_candidates, done) ==
    [reward |-> Append(c.reward, reward),
     inp_graph |-> Append(c.inp_graph, inp_graph),
     makespan |-> Append(c.makespan, makespan),
     node_candidates |-> Append(c.node_candidates, node_candidates),
     done |-> Append(c.done, done)]

\* A keyword argument: <<>> is the default None, <<x>> is the value x.
NoArg == <<>>
Arg(x) == <<x>>

\* `arg is not None`
IsNotNone(arg) == arg # NoArg

\* lst[idx] = x of a Python list: idx counts from 0, a negative idx from the end.
PyIndex(lst, idx) == IF idx >= 0 THEN idx + 1 ELSE Len(lst) + idx + 1
IndexError(lst, idx) == PyIndex(lst, idx) \notin 1..Len(lst)
SetItem(lst, idx, x) == [lst EXCEPT ![PyIndex(lst, idx)] = x]

\* One `if x is not None: self.__x[idx] = x` of ItemsContainer.update.
UpdateField(lst, idx, arg) ==
    IF IsNotNone(arg) THEN SetItem(lst, idx, arg[1]) ELSE lst

\* ItemsContainer.update with `if x:` in place of `if x is not None:`.
ContainerUpdateIfTruthy(c, idx, reward, inp_graph, makespan, node_candidates, done) ==
    [reward |-> UpdateField(c.reward, idx, IF reward = Arg(0) THEN NoArg ELSE reward),
     inp_graph |-> UpdateField(c.inp_graph, idx, inp_graph),
     makespan |-> UpdateField(c.makespan, idx, IF makespan = Arg(0) THEN NoArg ELSE makespan),
     node_candidates |-> UpdateField(c.node_candidates, idx,
                            IF node_candidates = Arg(<<>>) THEN NoArg ELSE node_candidates),
     done |-> UpdateField(c.done, idx, IF done = Arg(FALSE) THEN NoArg ELSE done)]

\* ItemsContainer.update, for an idx no assignment raises on.
ContainerUpdate(c, idx, reward, inp_graph, makespan, node_candidates, done) ==
    [reward |-> UpdateField(c.reward, idx, reward),
     inp_graph |-> UpdateField(c.inp_graph, idx, inp_graph),
     makespan |-> UpdateField(c.makespan, idx, makespan),
     node_candidates |-> UpdateField(c.node_candidates, idx, node_candidates),
     done |-> UpdateField(c.done, idx, done)]

\* ItemsContainer.update raises IndexError at its first assignment: the five
\* lists have one length.
UpdateRaises(c, idx, reward, inp_graph, makespan, node_candidates, done) ==
    /\ \/ IsNotNone(reward)
       \/ IsNotNone(inp_graph)
       \/ IsNotNone(makespan)
       \/ IsNotNone(node_candidates)
       \/ IsNotNone(done)
    /\ IndexError(c.reward, idx)

\* What a read accessor returns: a list object, of the caller's own
\* ("snapshot") or the container's ("list").  val is its content; src[i] is
\* the position of the container's element that val[i] is the same object
\* as, 0 for an object of the caller's own.
\* `return self.__x`: the container's list itself.
SameList(c, f) ==
    [kind |-> "list", field |-> f, val |-> c[f], src |-> [i \in DOMAIN c[f] |-> i]]

\* copy(self.__x): a new list of the container's element objects.
ShallowCopy(c, f) ==
    [kind |-> "snapshot", field |-> f, val |-> c[f], src |-> [i \in DOMAIN c[f] |-> i]]

\* deepcopy(self.__x): a new list of new element objects.
DeepCopy(c, f) ==
    [kind |-> "snapshot", field |-> f, val |-> c[f], src |-> [i \in DOMAIN c[f] |-> 0]]

\* The properties reward, inp_graph, makespan, node_candidates, done.
Accessor(c, f) == DeepCopy(c, f)

\* The content of the list a read accessor returned.
Deref(c, ref) == ref.val

\* ------------------------------------------------------------ Memory
\* Memory.__init__: six empty lists.  steps is history: the timestep of each
\* record the lists hold.  own is the set of entries <<list, index>> that
\* are a list object of the current container, not a copy of one.
NewMemory ==
    [actions |-> <<>>, states |-> <<>>, candidates |-> <<>>, logprobs |-> <<>>,
     rewards |-> <<>>, is_terminals |-> <<>>, steps |-> <<>>, own |-> {}]

\* The list an accessor returned was appended to list l of the buffer.
Held(m, l, ref) ==
    IF ref.kind = "list" THEN [m EXCEPT !.own = @ \cup {<<l, Len(m[l])>>}] ELSE m

\* The buffer after the container's lists have become those of c: the
\* entries that are the container's lists have changed with them.
Refresh(m, c) ==
    [m EXCEPT
        !.states = [i \in DOMAIN @ |-> IF <<"states", i>> \in m.own THEN c.inp_graph ELSE @[i]],
        !.candidates = [i \in DOMAIN @ |->
                           IF <<"candidates", i>> \in m.own THEN c.node_candidates ELSE @[i]],
        !.rewards = [i \in DOMAIN @ |-> IF <<"rewards", i>> \in m.own THEN c.reward ELSE @[i]],
        !.is_terminals = [i \in DOMAIN @ |->
                             IF <<"is_terminals", i>> \in m.own THEN c.done ELSE @[i]]]

\* The container is dropped: its lists change no more.
Detach(m) == [m EXCEPT !.own = {}]

MemoryLists == {"actions", "states", "candidates", "logprobs", "rewards", "is_terminals"}

\* A clear_memory that deletes nothing.
ClearMemoryKeeps(m) == m

\* A clear_memory that misses one of the six lists.
ClearMemoryLeavesLogprobs(m) ==
    [actions |-> <<>>, states |-> <<>>, candidates |-> <<>>, logprobs |-> m.logprobs,
     rewards |-> <<>>, is_terminals |-> <<>>, steps |-> <<>>, own |-> {}]

\* Memory.clear_memory: del of every list.
ClearMemory(m) ==
    [actions |-> <<>>, states |-> <<>>, candidates |-> <<>>, logprobs |-> <<>>,
     rewards |-> <<>>, is_terminals |-> <<>>, steps |-> <<>>, own |-> {}]

\* ------------------------------------------------------------ the collaborators
\* tuples_train: graph g with nothing scheduled yet.
TuplesTrain == [g \in 1..NumGraphs |-> [graph |-> g - 1, scheduled |-> 0]]

\* dag_graph.get_node_candidates: the tasks ready in a graph state.
NodeCandidates(inp_graph) ==
    IF inp_graph.scheduled = 0 THEN <<0, 1>> ELSE <<inp_graph.scheduled>>

\* dag_graph.step_e2e(inp_graph, action, makespan): every result it may return.
StepE2E(inp_graph, action, makespan) ==
    { [reward |-> r,
       inp_graph |-> [inp_graph EXCEPT !.scheduled = @ + 1],
       makespan |-> makespan + 1,
       node_candidates |-> NodeCandidates([inp_graph EXCEPT !.scheduled = @ + 1]),
       done |-> d] : r \in RewardVals, d \in BOOLEAN }

\* The parameters of an ActorCritic: version counts the optimizer steps that
\* made them; weights is "finite", or "nan" / "inf" for weights that have
\* diverged so that the critic returns NaN / Inf.
Params(version, weights) == [version |-> version, weights |-> weights]

\* actor_net: the log-probability of an action, under parameters `params`.
LogProb(params, inp_graph, action) ==
    -(1 + 7 * params.version + 2 * inp_graph.scheduled + action)

\* value_net: the state value, under parameters `params`.
StateValue(params, inp_graph) ==
    CASE params.weights = "nan" -> NaN
      [] params.weights = "inf" -> Inf
      [] OTHER -> Fin((((params.version + inp_graph.graph + inp_graph.scheduled) % 3) - 1) * Unit)

Range(seq) == {seq[i] : i \in DOMAIN seq}

\* ActorCritic.act: the actions the actor may sample, and what it records.
ActChoices(node_candidates) ==
    {a \in [DOMAIN node_candidates -> UNION {Range(c) : c \in Range(node_candidates)}] :
        \A b \in DOMAIN node_candidates : a[b] \in Range(node_candidates[b])}

Act(m, params, inp_graph, node_candidates, actions, step) ==
    [m EXCEPT
        !.states = Append(@, inp_graph),
        !.candidates = Append(@, node_candidates),
        !.actions = Append(@, actions),
        !.logprobs = Append(@, [b \in DOMAIN inp_graph |->
                                   LogProb(params, inp_graph[b], actions[b])]),
        !.steps = Append(@, step)]

\* ------------------------------------------------------------ PPO.update
\* rewards.append(discounted_reward): the returns in reverse order.
InsertBack(lst, x) == Append(lst, x)

\* rewards.insert(0, discounted_reward)
InsertFront(lst, x) == <<x>> \o lst

\* One pass of the loop over zip(reversed(rewards), reversed(is_terminals)).
Discount(reward, is_terminal, d) ==
    [b \in DOMAIN d |->
        AddF(RewardTensor(reward)[b], MulGamma(MulMask(d[b], is_terminal[b])))]

\* The loop: i records are still to be read, d is discounted_reward and acc
\* is rewards.
RECURSIVE ReturnLoop(_, _, _, _, _)
ReturnLoop(rs, ts, i, d, acc) ==
    IF i = 0 THEN acc
    ELSE ReturnLoop(rs, ts, i - 1, Discount(rs[i], ts[i], d),
                    InsertFront(acc, Discount(rs[i], ts[i], d)))

Min(a, b) == IF a <= b THEN a ELSE b

\* The un-normalised returns of a window, one vector per timestep.
DiscountedReturns(rs, ts, state_values) ==
    ReturnLoop(rs, ts, Min(Len(rs), Len(ts)), state_values, <<>>)

\* old_states += state; torch.cat(memory.x, dim=0): the flat batch.
RECURSIVE Flatten(_)
Flatten(lists) ==
    IF lists = <<>> THEN <<>> ELSE Head(lists) \o Flatten(Tail(lists))

\* logprobs - old_logprobs over the flat batch, logprobs from self.policy.
LogRatios(m, params) ==
    [i \in DOMAIN Flatten(m.logprobs) |->
        LogProb(params, Flatten(m.states)[i], Flatten(m.actions)[i])
            - Flatten(m.logprobs)[i]]

\* ------------------------------------------------------------ main
MaxSteps == MaxEpisodes * MaxTimesteps

Configs ==
    [batch_size : BatchSizes, max_episodes : {MaxEpisodes},
     max_timesteps : 1..MaxTimesteps, update_timestep : UpdateTimesteps,
     k_epochs : KEpochs, lr_scheduler : BOOLEAN,
     log_interval : {1}, test_interval : {MaxEpisodes}]

\* summary_writer: None when tensorflow cannot be imported.
NoWriter == "None"
Writers == {NoWriter, "TensorboardUtil"}

\* `if summary_writer: summary_writer.add_scalar(...)`, k times, on a sink
\* that has n scalars.
AddScalars(w, n, k) == IF w # NoWriter THEN n + k ELSE n

NoCaller == [kind |-> "none"]

\* main up to the construction of PPO: the two ActorCritic are initialised
\* apart, so their parameters differ until load_state_dict.
Init ==
    /\ args \in Configs
    /\ pc = "construct"
    /\ i_episode = 0
    /\ t = 0
    /\ timestep = 0
    /\ items_batch = NewContainer
    /\ memory = NewMemory
    /\ action_batch = <<>>
    /\ calls = <<>>
    /\ step_list = <<>>
    /\ policy = Params(0, "finite")
    /\ policy_old = Params(-1, "finite")
    /\ discounted_reward = <<>>
    /\ rewards = <<>>
    /\ epoch = 0
    /\ ratios = <<>>
    /\ lr_steps = 0
    /\ consumed = [s \in 1..MaxSteps |-> 0]
    /\ n_updates = 0
    /\ n_clears = 0
    /\ snap = NoCaller
    /\ call = NoCaller
    /\ cfg = NoCaller
    /\ summary_writer \in Writers
    /\ sink = 0
    /\ best_test_ratio = 0
    /\ evals = <<>>
    /\ saved = <<>>
    /\ surr = NoCaller

\* self.policy_old.load_state_dict(self.policy.state_dict())
LoadStateDict(from) == from

\* A PPO.__init__ that leaves policy_old as it was initialised.
ConstructNoLoad ==
    /\ pc = "construct"
    /\ pc' = "episode"
    /\ UNCHANGED <<args, driverVars, memory, policyVars, updateVars,
                   historyVars, otherVars>>

\* PPO.__init__
Construct ==
    /\ pc = "construct"
    /\ policy_old' = LoadStateDict(policy)
    /\ pc' = "episode"
    /\ UNCHANGED <<args, driverVars, memory, policy, lr_steps, updateVars,
                   historyVars, otherVars>>

\* The b-th slot of episode i_ep: graph_index and the appended record.
GraphIndex(i_ep, b) == ((i_ep - 1) * args.batch_size + b) % Len(TuplesTrain)

RECURSIVE ResetBatch(_, _, _)
ResetBatch(c, i_ep, b) ==
    IF b = args.batch_size THEN c
    ELSE ResetBatch(
            ContainerAppend(c, 0, TuplesTrain[GraphIndex(i_ep, b) + 1], 0,
                            NodeCandidates(TuplesTrain[GraphIndex(i_ep, b) + 1]), FALSE),
            i_ep, b + 1)

\* for i_episode in range(1, max_episodes + 1): a new container of B slots.
Episode ==
    /\ pc = "episode"
    /\ i_episode < args.max_episodes
    /\ i_episode' = i_episode + 1
    /\ items_batch' = ResetBatch(NewContainer, i_episode + 1, 0)
    /\ t' = 0
    /\ memory' = Detach(memory)
    /\ pc' = "act"
    /\ UNCHANGED <<args, timestep, action_batch, calls, step_list,
                   policyVars, updateVars, historyVars, otherVars>>

\* The training loop is over.
Finish ==
    /\ pc = "episode"
    /\ i_episode = args.max_episodes
    /\ pc' = "done"
    /\ UNCHANGED <<args, driverVars, memory, policyVars, updateVars,
                   historyVars, otherVars>>

\* timestep += 1; action_batch = ppo.policy_old.act(...)
ActStep ==
    /\ pc = "act"
    /\ timestep' = timestep + 1
    /\ \E actions \in ActChoices(Deref(items_batch, Accessor(items_batch, "node_candidates"))) :
          /\ memory' = Held(Held(Act(memory, policy_old,
                                     Deref(items_batch, Accessor(items_batch, "inp_graph")),
                                     Deref(items_batch, Accessor(items_batch, "node_candidates")),
                                     actions, timestep + 1),
                                 "states", Accessor(items_batch, "inp_graph")),
                            "candidates", Accessor(items_batch, "node_candidates"))
          /\ action_batch' = actions
    /\ pc' = "step"
    /\ UNCHANGED <<args, i_episode, t, items_batch, calls, step_list,
                   policyVars, updateVars, historyVars, otherVars>>

\* step_func_feeder(batch_size): one (inp_graph, action, makespan) per slot.
StepFuncFeeder ==
    [b \in 1..args.batch_size |->
        [inp_graph |-> Deref(items_batch, Accessor(items_batch, "inp_graph"))[b],
         action |-> action_batch[b],
         makespan |-> Deref(items_batch, Accessor(items_batch, "makespan"))[b]]]

\* batch_size > 1: mp_pool.starmap_async(dag_graph.step_e2e, feeder)
Submit ==
    /\ pc = "step"
    /\ args.batch_size > 1
    /\ calls' = StepFuncFeeder
    /\ step_list' = [b \in 1..args.batch_size |-> <<>>]
    /\ pc' = "pool"
    /\ UNCHANGED <<args, i_episode, t, timestep, items_batch, memory, action_batch,
                   policyVars, updateVars, historyVars, otherVars>>

\* A pool worker returns the result of call b.
Worker(b) ==
    /\ pc = "pool"
    /\ step_list[b] = <<>>
    /\ \E r \in StepE2E(calls[b].inp_graph, calls[b].action, calls[b].makespan) :
          step_list' = [step_list EXCEPT ![b] = <<r>>]
    /\ UNCHANGED <<args, pc, i_episode, t, timestep, items_batch, memory, action_batch,
                   calls, policyVars, updateVars, historyVars, otherVars>>

\* batch_size = 1: step_list = [dag_graph.step_e2e(*x) for x in feeder]
StepDirect ==
    /\ pc = "step"
    /\ args.batch_size <= 1
    /\ calls' = StepFuncFeeder
    /\ \E rs \in [1..args.batch_size ->
                    UNION {StepE2E(c.inp_graph, c.action, c.makespan) : c \in Range(StepFuncFeeder)}] :
          /\ \A b \in 1..args.batch_size :
                rs[b] \in StepE2E(StepFuncFeeder[b].inp_graph, StepFuncFeeder[b].action,
                                  StepFuncFeeder[b].makespan)
          /\ step_list' = [b \in 1..args.batch_size |-> <<rs[b]>>]
    /\ pc' = "pool"
    /\ UNCHANGED <<args, i_episode, t, timestep, items_batch, memory, action_batch,
                   policyVars, updateVars, historyVars, otherVars>>

\* Applying result b to slot B-1-b.
RECURSIVE ApplyStepsReversed(_, _, _)
ApplyStepsReversed(c, results, b) ==
    IF b = Len(results) THEN c
    ELSE ApplyStepsReversed(
            ContainerUpdate(c, Len(results) - 1 - b, Arg(results[b + 1][1].reward),
                            Arg(results[b + 1][1].inp_graph),
                            Arg(results[b + 1][1].makespan),
                            Arg(results[b + 1][1].node_candidates),
                            Arg(results[b + 1][1].done)),
            results, b + 1)

\* for b, item in enumerate(step_list): items_batch.update(b, ...)
RECURSIVE ApplySteps(_, _, _)
ApplySteps(c, results, b) ==
    IF b = Len(results) THEN c
    ELSE ApplySteps(
            ContainerUpdate(c, b, Arg(results[b + 1][1].reward),
                            Arg(results[b + 1][1].inp_graph),
                            Arg(results[b + 1][1].makespan),
                            Arg(results[b + 1][1].node_candidates),
                            Arg(results[b + 1][1].done)),
            results, b + 1)

\* Saving the reward 0 and the flag False every slot starts an episode with.
SaveRewardsInitial(m, c) ==
    [m EXCEPT !.rewards = Append(@, [b \in DOMAIN c.reward |-> 0]),
              !.is_terminals = Append(@, [b \in DOMAIN c.done |-> FALSE])]

\* memory.rewards.append(items_batch.reward); memory.is_terminals.append(items_batch.done)
SaveRewards(m, c) ==
    Held(Held([m EXCEPT !.rewards = Append(@, Deref(c, Accessor(c, "reward"))),
                        !.is_terminals = Append(@, Deref(c, Accessor(c, "done")))],
              "rewards", Accessor(c, "reward")),
         "is_terminals", Accessor(c, "done"))

\* The cadence counted from the start of the episode: (t + 1) % update_timestep.
UpdateDueInEpisode == (t + 1) % args.update_timestep = 0

\* if timestep % args.update_timestep == 0
UpdateDue == timestep % args.update_timestep = 0

\* pool_map.get() has every result: the container is updated, the rewards
\* and done flags are saved, and the update cadence is tested.
Gather ==
    /\ pc = "pool"
    /\ \A b \in DOMAIN step_list : step_list[b] # <<>>
    /\ items_batch' = ApplySteps(items_batch, step_list, 0)
    /\ memory' = SaveRewards(Refresh(memory, ApplySteps(items_batch, step_list, 0)),
                             ApplySteps(items_batch, step_list, 0))
    /\ pc' = IF UpdateDue THEN "update" ELSE "tail"
    /\ UNCHANGED <<args, i_episode, t, timestep, action_batch, calls, step_list,
                   policyVars, updateVars, historyVars, otherVars>>

\* ------------------------------------------------------------ PPO.update, step by step
Last(lst) == lst[Len(lst)]

\* self.policy.evaluate(memory.states[-1], ...): discounted_reward = state_values
UpdBootstrap ==
    /\ pc = "update"
    /\ discounted_reward' = [b \in DOMAIN Last(memory.states) |->
                                StateValue(policy, Last(memory.states)[b])]
    /\ consumed' = [s \in DOMAIN consumed |->
                       IF s \in Range(memory.steps) THEN consumed[s] + 1 ELSE consumed[s]]
    /\ pc' = "returns"
    /\ UNCHANGED <<args, driverVars, memory, policyVars, rewards, epoch, ratios,
                   n_updates, n_clears, otherVars>>

\* The backward recursion over the window, and the flat batch.
UpdReturns ==
    /\ pc = "returns"
    /\ rewards' = DiscountedReturns(memory.rewards, memory.is_terminals, discounted_reward)
    /\ discounted_reward' = Head(DiscountedReturns(memory.rewards, memory.is_terminals,
                                                   discounted_reward) \o <<discounted_reward>>)
    /\ epoch' = 0
    /\ pc' = "epochs"
    /\ UNCHANGED <<args, driverVars, memory, policyVars, ratios,
                   historyVars, otherVars>>

\* self.optimizer.step(): new parameters of self.policy.
OptimizerStep(params) == [params EXCEPT !.version = @ + 1]

\* An epoch that also copies the new weights into the old policy.
UpdEpochSyncing ==
    /\ pc = "epochs"
    /\ epoch < args.k_epochs
    /\ ratios' = LogRatios(memory, policy)
    /\ policy' = OptimizerStep(policy)
    /\ policy_old' = LoadStateDict(OptimizerStep(policy))
    /\ epoch' = epoch + 1
    /\ UNCHANGED <<args, pc, driverVars, memory, lr_steps,
                   discounted_reward, rewards, historyVars, otherVars>>

\* One epoch: evaluate, the ratios, the loss, one gradient step.
UpdEpoch ==
    /\ pc = "epochs"
    /\ epoch < args.k_epochs
    /\ ratios' = LogRatios(memory, policy)
    /\ policy' = OptimizerStep(policy)
    /\ epoch' = epoch + 1
    /\ UNCHANGED <<args, pc, driverVars, memory, policy_old, lr_steps,
                   discounted_reward, rewards, historyVars, otherVars>>

\* if self.lr_scheduler: self.lr_scheduler.step()
UpdSched ==
    /\ pc = "epochs"
    /\ epoch = args.k_epochs
    /\ lr_steps' = IF args.lr_scheduler THEN lr_steps + 1 ELSE lr_steps
    /\ pc' = "sync"
    /\ UNCHANGED <<args, driverVars, memory, policy, policy_old, updateVars,
                   historyVars, otherVars>>

\* The update that never copies the new weights into the old policy.
UpdSyncSkipped ==
    /\ pc = "sync"
    /\ policy_old' = policy_old
    /\ n_updates' = n_updates + 1
    /\ discounted_reward' = <<>>
    /\ rewards' = <<>>
    /\ epoch' = 0
    /\ ratios' = <<>>
    /\ pc' = "clear"
    /\ UNCHANGED <<args, driverVars, memory, policy, lr_steps, consumed, n_clears,
                   otherVars>>

\* self.policy_old.load_state_dict(self.policy.state_dict()); return
UpdSync ==
    /\ pc = "sync"
    /\ policy_old' = LoadStateDict(policy)
    /\ n_updates' = n_updates + 1
    /\ discounted_reward' = <<>>
    /\ rewards' = <<>>
    /\ epoch' = 0
    /\ ratios' = <<>>
    /\ pc' = "clear"
    /\ UNCHANGED <<args, driverVars, memory, policy, lr_steps, consumed, n_clears,
                   otherVars>>

\* Lines 312-315 with the buffer cleared only if there is a writer.
AfterUpdateClearsIfWriter(w, m, n) ==
    [memory |-> IF w # NoWriter THEN ClearMemory(m) ELSE m, sink |-> AddScalars(w, n, 1)]

\* critic_loss.append(closs); the scalar 'critic mse/train' if there is a
\* writer; memory.clear_memory()
AfterUpdate(w, m, n) ==
    [memory |-> ClearMemory(m), sink |-> AddScalars(w, n, 1)]

Clear ==
    /\ pc = "clear"
    /\ memory' = AfterUpdate(summary_writer, memory, sink).memory
    /\ sink' = AfterUpdate(summary_writer, memory, sink).sink
    /\ n_clears' = n_clears + 1
    /\ pc' = "tail"
    /\ UNCHANGED <<args, driverVars, policyVars, updateVars, consumed, n_updates,
                   snap, call, cfg, surr, summary_writer, best_test_ratio, evals, saved>>

\* any(items_batch.done)
AnyDone(c) == \E b \in DOMAIN c.done : Deref(c, Accessor(c, "done"))[b]

\* The loop without `if any(items_batch.done): break`.
LoopTailNoBreak ==
    /\ pc = "tail"
    /\ IF t + 1 = args.max_timesteps
       THEN /\ pc' = "log"
            /\ t' = t
       ELSE /\ pc' = "act"
            /\ t' = t + 1
    /\ UNCHANGED <<args, i_episode, timestep, items_batch, memory, action_batch,
                   calls, step_list, policyVars, updateVars, historyVars, otherVars>>

\* if any(items_batch.done): break, and the end of range(max_timesteps).
LoopTail ==
    /\ pc = "tail"
    /\ IF AnyDone(items_batch) \/ t + 1 = args.max_timesteps
       THEN /\ pc' = "log"
            /\ t' = t
       ELSE /\ pc' = "act"
            /\ t' = t + 1
    /\ UNCHANGED <<args, i_episode, timestep, items_batch, memory, action_batch,
                   calls, step_list, policyVars, updateVars, historyVars, otherVars>>

\* The optimizer has three parameter groups.
ParamGroups == 3

\* Lines 324-351: every log_interval-th episode the scalars reward/train,
\* time/train and one lr per parameter group, if there is a writer.
LogScalars(w, n, i_ep, log_interval) ==
    IF i_ep % log_interval = 0 THEN AddScalars(w, n, 2 + ParamGroups) ELSE n

Logging ==
    /\ pc = "log"
    /\ sink' = LogScalars(summary_writer, sink, i_episode, args.log_interval)
    /\ pc' = "test"
    /\ UNCHANGED <<args, driverVars, memory, policyVars, updateVars, historyVars,
                   snap, call, cfg, surr, summary_writer, best_test_ratio, evals, saved>>

\* test_dict["ratio"]["mean"]: the values evaluate may return.
EvalRatios == {0, 1, 2}

\* `ratio >= best_test_ratio`
BetterOrEqual(ratio, best) == ratio >= best

\* test_dict["ratio"]["mean"] > best_test_ratio
Better(ratio, best) == ratio > best

\* Lines 369-386 for an evaluation that returned `ratio`: the scalars of
\* test_dict if there is a writer, then the new best_test_ratio and whether
\* torch.save is called.
AfterTest(w, n, best, ratio) ==
    [sink |-> AddScalars(w, n, 1),
     best |-> IF Better(ratio, best) THEN ratio ELSE best,
     save |-> Better(ratio, best)]

\* if i_episode % args.test_interval == 0: evaluate, and the checkpoint.
Testing ==
    /\ pc = "test"
    /\ i_episode % args.test_interval = 0
    /\ \E ratio \in EvalRatios :
          /\ evals' = Append(evals, ratio)
          /\ sink' = AfterTest(summary_writer, sink, best_test_ratio, ratio).sink
          /\ best_test_ratio' = AfterTest(summary_writer, sink, best_test_ratio, ratio).best
          /\ saved' = IF AfterTest(summary_writer, sink, best_test_ratio, ratio).save
                      THEN Append(saved, ratio) ELSE saved
    /\ pc' = "episode"
    /\ UNCHANGED <<args, driverVars, memory, policyVars, updateVars, historyVars,
                   snap, call, cfg, surr, summary_writer>>

\* i_episode % args.test_interval != 0
NoTesting ==
    /\ pc = "test"
    /\ i_episode % args.test_interval # 0
    /\ pc' = "episode"
    /\ UNCHANGED <<args, driverVars, memory, policyVars, updateVars, historyVars,
                   otherVars>>

Next ==
    \/ Construct
    \/ Episode
    \/ Finish
    \/ ActStep
    \/ Submit
    \/ \E b \in DOMAIN step_list : Worker(b)
    \/ StepDirect
    \/ Gather
    \/ UpdBootstrap
    \/ UpdReturns
    \/ UpdEpoch
    \/ UpdSched
    \/ UpdSync
    \/ Clear
    \/ LoopTail
    \/ Logging
    \/ Testing
    \/ NoTesting

Spec == Init /\ [][Next]_vars

\* Every step of main is taken in the end: the environment calls return and
\* the optimizer steps finish.  The runs are those of one epoch per update,
\* without scheduler and without writer.
InitLive ==
    /\ Init
    /\ args.k_epochs = 1
    /\ ~args.lr_scheduler
    /\ summary_writer = NoWriter

SpecLive == InitLive /\ [][Next]_vars /\ WF_vars(Next)

\* SpecEval: runs of MaxEvalEpisodes episodes of one timestep, updated and
\* logged every second episode, tested every episode or every second one,
\* with and without a writer.
MaxEvalEpisodes == 3

EvalConfigs ==
    [batch_size : BatchSizes, max_episodes : {MaxEvalEpisodes},
     max_timesteps : {1}, update_timestep : {2},
     k_epochs : {1}, lr_scheduler : {FALSE},
     log_interval : {2}, test_interval : {1, 2}]

InitEval ==
    /\ args \in EvalConfigs
    /\ pc = "construct"
    /\ i_episode = 0
    /\ t = 0
    /\ timestep = 0
    /\ items_batch = NewContainer
    /\ memory = NewMemory
    /\ action_batch = <<>>
    /\ calls = <<>>
    /\ step_list = <<>>
    /\ policy = Params(0, "finite")
    /\ policy_old = Params(-1, "finite")
    /\ discounted_reward = <<>>
    /\ rewards = <<>>
    /\ epoch = 0
    /\ ratios = <<>>
    /\ lr_steps = 0
    /\ consumed = [s \in 1..MaxEvalEpisodes |-> 0]
    /\ n_updates = 0
    /\ n_clears = 0
    /\ snap = NoCaller
    /\ call = NoCaller
    /\ cfg = NoCaller
    /\ surr = NoCaller
    /\ summary_writer \in Writers
    /\ sink = 0
    /\ best_test_ratio = 0
    /\ evals = <<>>
    /\ saved = <<>>

SpecEval == InitEval /\ [][Next]_vars

\* ------------------------------------------------------------ claims on the driver
EmptyLists(m) == \A l \in MemoryLists : m[l] = <<>>

\* C1: the old policy is written only by PPO.__init__ and by the last step of
\* PPO.update, each time to the value of the current policy; the current
\* policy changes only in an epoch of PPO.update; so whenever policy_old.act
\* is about to be called the two are equal.
C1_OldPolicyWrittenOnlyAtSync ==
    /\ [][policy_old' # policy_old =>
            /\ pc \in {"construct", "sync"}
            /\ policy_old' = policy
            /\ policy' = policy
            /\ pc = "sync" => pc' = "clear"]_vars
    /\ [][policy' # policy => pc = "epochs" /\ pc' = "epochs"]_vars
    /\ [](pc \in {"act", "step", "pool"} => policy_old = policy)

\* C1 witness: an act is due after an update has changed both policies.
C1_ActAfterUpdate ==
    pc = "act" /\ n_updates >= 1 /\ policy.version >= 1 /\ policy_old = policy

\* C2 as stated: when training ends, every appended step was consumed by
\* exactly one update.
C2_EveryStepConsumedOnce ==
    pc = "done" => \A s \in 1..timestep : consumed[s] = 1

\* The last timestep on which an update fell due.
LastCadence == (timestep \div args.update_timestep) * args.update_timestep

\* C2 amended: no step is consumed twice; an update consumes exactly the
\* steps appended since the previous clear, in order; and when training ends
\* the steps up to the last cadence point were consumed once, those after it
\* never.
C2_ConsumedAtMostOnce ==
    /\ \A s \in DOMAIN consumed : consumed[s] <= 1
    /\ pc = "update" =>
          /\ memory.steps = [i \in 1..args.update_timestep |->
                                timestep - args.update_timestep + i]
          /\ \A s \in 1..timestep : consumed[s] = 0 <=> s \in Range(memory.steps)
    /\ pc = "done" =>
          \A s \in 1..timestep : consumed[s] = (IF s <= LastCadence THEN 1 ELSE 0)

\* C2 witness: training has ended with steps consumed and steps left over.
C2_LeftoverAtEnd ==
    /\ pc = "done"
    /\ LastCadence >= 1
    /\ timestep > LastCadence
    /\ consumed[timestep] = 0
    /\ memory.steps # <<>>

\* C3: clear_memory is called once right after every PPO.update and nowhere
\* else, never while the buffer holds a step no update has read, and it
\* leaves the six lists empty.
C3_ClearOnceAfterEveryUpdate ==
    /\ [][n_clears' # n_clears =>
            /\ pc = "clear"
            /\ n_updates = n_clears + 1
            /\ n_clears' = n_clears + 1
            /\ \A s \in Range(memory.steps) : consumed[s] = 1
            /\ EmptyLists(memory')]_vars
    /\ [][n_updates' # n_updates => pc' = "clear" /\ n_updates' = n_clears + 1]_vars
    /\ [][pc = "clear" => n_clears' = n_clears + 1]_vars
    /\ [][(\E l \in MemoryLists : Len(memory'[l]) < Len(memory[l])) =>
            n_clears' = n_clears + 1]_vars
    /\ [](pc # "clear" => n_updates = n_clears)

\* C3 witness: two updates, each followed by its clear, and the buffer empty.
C3_TwoClears ==
    n_clears = 2 /\ n_updates = 2 /\ pc = "tail" /\ EmptyLists(memory)

\* C6: in the first epoch of an update every recorded log-probability is the
\* one the current policy gives now, so every ratio is exp(0) = 1.
C6_FirstEpochRatioIsOne ==
    /\ pc \in {"update", "returns"} \/ (pc = "epochs" /\ epoch = 0) =>
          \A i \in DOMAIN Flatten(memory.logprobs) : LogRatios(memory, policy)[i] = 0
    /\ pc = "epochs" /\ epoch = 1 =>
          /\ Len(ratios) = args.update_timestep * args.batch_size
          /\ \A i \in DOMAIN ratios : ratios[i] = 0

\* C6 witness: the first epoch of a later update, on a window of two steps
\* of two slots.
C6_FirstEpochDone ==
    /\ pc = "epochs" /\ epoch = 1 /\ n_updates >= 1
    /\ Len(ratios) = 4
    /\ \A i \in DOMAIN ratios : ratios[i] = 0

\* The ratios of a second epoch differ from 1.
C6_SecondEpochMoved ==
    pc = "epochs" /\ epoch = 2 /\ \E i \in DOMAIN ratios : ratios[i] # 0

\* C11: no step is taken in an episode once a slot is done or max_timesteps
\* steps were made; the episode ends at the first timestep after which a
\* slot is done, or after max_timesteps steps, so it has between 1 and
\* max_timesteps steps; an update due on the last timestep of an episode has
\* been made, and the buffer cleared, before the episode ends; and the run
\* ends after max_episodes episodes.
C11_EpisodeEndsAtFirstDone ==
    /\ [](pc \in {"act", "step", "pool"} =>
             /\ ~AnyDone(items_batch)
             /\ t < args.max_timesteps)
    /\ [][pc = "tail" =>
             pc' = IF AnyDone(items_batch) \/ t + 1 = args.max_timesteps
                   THEN "log" ELSE "act"]_vars
    /\ []((pc = "episode" /\ i_episode >= 1) =>
             /\ AnyDone(items_batch) \/ t + 1 = args.max_timesteps
             /\ t + 1 >= 1
             /\ t + 1 <= args.max_timesteps)
    /\ []((pc = "tail" /\ UpdateDue) =>
             /\ consumed[timestep] = 1
             /\ EmptyLists(memory))
    /\ <>[](pc = "done" /\ i_episode = args.max_episodes)

\* C11 witness: the second episode ended on a done slot before max_timesteps,
\* at a timestep on which an update was due and was made.
C11_EarlyEndWithUpdate ==
    /\ pc = "episode"
    /\ i_episode = 2
    /\ AnyDone(items_batch)
    /\ ~(\A b \in DOMAIN items_batch.done : items_batch.done[b])
    /\ t + 1 < args.max_timesteps
    /\ UpdateDue
    /\ consumed[timestep] = 1
    /\ EmptyLists(memory)

\* C12: within an episode a done flag that is true stays true; no slot of a
\* container with a done slot is passed to step_e2e; and what the buffer
\* recorded last, until it is cleared, is the reward and done flag each slot
\* holds.
C12_DoneIsTerminal ==
    /\ [][i_episode' = i_episode =>
             \A b \in DOMAIN items_batch.done :
                items_batch.done[b] => items_batch'.done[b]]_vars
    /\ [](pc \in {"step", "pool"} => \A b \in DOMAIN items_batch.done : ~items_batch.done[b])
    /\ []((pc \in {"update", "returns", "epochs", "sync", "clear", "tail", "episode"}
              /\ memory.rewards # <<>>) =>
             /\ Last(memory.rewards) = items_batch.reward
             /\ Last(memory.is_terminals) = items_batch.done)

\* C12 witness: an episode of batch size 2 has ended with slot 0 done and
\* slot 1 not, and the buffer holds that as its last record.
C12_DoneSlotRecorded ==
    /\ pc = "episode"
    /\ items_batch.done = <<TRUE, FALSE>>
    /\ items_batch.reward = <<1, 0>>
    /\ Len(memory.is_terminals) = 1
    /\ Last(memory.is_terminals) = <<TRUE, FALSE>>
    /\ Last(memory.rewards) = <<1, 0>>

\* The result record a slot of the container holds.
SlotRecord(c, b) ==
    [reward |-> c.reward[b], inp_graph |-> c.inp_graph[b], makespan |-> c.makespan[b],
     node_candidates |-> c.node_candidates[b], done |-> c.done[b]]

\* C13: while results are awaited there is one call per slot, made with the
\* slot's state and makespan as the container holds them since the previous
\* timestep and with the slot's action, and every result that has returned
\* is a result of its slot's call; a result that has returned is not
\* replaced; the container, the buffer and the policies do not change until
\* every result has returned; then slot b holds result b, whatever the order
\* the results came in.  The same holds of the direct call of batch size 1.
C13_StepIsBarrier ==
    /\ [](pc = "pool" =>
             /\ DOMAIN calls = 1..args.batch_size
             /\ DOMAIN step_list = 1..args.batch_size
             /\ \A b \in 1..args.batch_size :
                   /\ calls[b] = [inp_graph |-> items_batch.inp_graph[b],
                                  action |-> action_batch[b],
                                  makespan |-> items_batch.makespan[b]]
                   /\ step_list[b] # <<>> =>
                         /\ Len(step_list[b]) = 1
                         /\ step_list[b][1] \in StepE2E(calls[b].inp_graph, calls[b].action,
                                                        calls[b].makespan))
    /\ [][pc' = "pool" =>
             /\ items_batch' = items_batch
             /\ memory' = memory
             /\ policy' = policy
             /\ policy_old' = policy_old
             /\ pc = "pool" =>
                   \A b \in DOMAIN step_list :
                      step_list[b] # <<>> => step_list'[b] = step_list[b]]_vars
    /\ [][(pc = "pool" /\ pc' # "pool") =>
             /\ \A b \in DOMAIN step_list : step_list[b] # <<>>
             /\ Len(items_batch'.reward) = args.batch_size
             /\ \A b \in DOMAIN step_list :
                   SlotRecord(items_batch', b) = step_list[b][1]]_vars

\* C13 witness: at the second timestep of an episode of batch size 2 the
\* result of slot 1 has returned before the result of slot 0.
C13_OutOfOrderResult ==
    /\ pc = "pool"
    /\ args.batch_size = 2
    /\ t = 1
    /\ step_list[1] = <<>>
    /\ step_list[2] # <<>>
    /\ calls[1].inp_graph # calls[2].inp_graph

\* C14: when PPO.update is called the six lists of the buffer have
\* update_timestep entries each, every entry has batch_size values, and the
\* entries are those of the last update_timestep timesteps; the update is
\* called after a timestep exactly if the count of all timesteps so far is
\* a multiple of update_timestep; that count only ever grows by one, at
\* the start of a timestep.
C14_WindowIsUpdateTimestep ==
    /\ [](pc = "update" =>
             /\ \A l \in MemoryLists :
                   /\ Len(memory[l]) = args.update_timestep
                   /\ \A i \in DOMAIN memory[l] : Len(memory[l][i]) = args.batch_size
             /\ memory.states # <<>>
             /\ memory.steps = [i \in 1..args.update_timestep |->
                                   timestep - args.update_timestep + i]
             /\ timestep % args.update_timestep = 0)
    /\ [][(pc = "pool" /\ pc' # "pool") =>
             (pc' = "update" <=> timestep % args.update_timestep = 0)]_vars
    /\ [][pc' = "update" => pc = "pool"]_vars
    /\ [][timestep' = IF pc = "act" THEN timestep + 1 ELSE timestep]_vars

\* C14 witness: an update is called after the first timestep of the second
\* episode, on a window that began in the first episode, and the second
\* episode goes on after it.
C14_WindowSpansEpisodes ==
    /\ pc = "update"
    /\ args.update_timestep = 2
    /\ args.batch_size = 2
    /\ args.max_timesteps = 2
    /\ i_episode = 2
    /\ t = 0
    /\ ~AnyDone(items_batch)
    /\ Len(memory.states) = 2
    /\ memory.steps = <<1, 2>>

\* The records of the window made in the current episode are its last t + 1;
\* the ones before them were made in earlier episodes.
EarlierRecords == 1..(Len(memory.rewards) - (t + 1))
CurrentRecords == {i \in DOMAIN memory.rewards : i \notin EarlierRecords}

\* The rewards of the window with those of the current episode replaced.
WithRewards(alt) ==
    [i \in DOMAIN memory.rewards |->
        IF i \in CurrentRecords THEN alt[i] ELSE memory.rewards[i]]

\* C15: when the returns of a window have been computed, the return of
\* every slot at every record of an earlier episode is what it would be
\* with any other rewards in the records of the current, later episode.
C15_EpisodesIndependent ==
    (pc = "epochs" /\ epoch = 0) =>
        \A alt \in [CurrentRecords -> [1..args.batch_size -> RewardVals]] :
           \A i \in EarlierRecords :
              DiscountedReturns(WithRewards(alt), memory.is_terminals,
                                [b \in DOMAIN Last(memory.states) |->
                                    StateValue(policy, Last(memory.states)[b])])[i]
                 = rewards[i]

\* C16: what act recorded is the state and the candidates of the container
\* at that timestep; and no step but clear_memory changes or removes an
\* entry of the buffer: not the container updates of later timesteps, not
\* the new container of a later episode.
C16_RecordIsImmutable ==
    /\ [](pc = "step" =>
             /\ Last(memory.states) = items_batch.inp_graph
             /\ Last(memory.candidates) = items_batch.node_candidates)
    /\ [][pc # "clear" =>
             \A l \in MemoryLists \cup {"steps"} :
                /\ Len(memory'[l]) >= Len(memory[l])
                /\ \A i \in DOMAIN memory[l] : memory'[l][i] = memory[l][i]]_vars

\* C16 witness: PPO.update is called on two records of one episode; the
\* first holds the state and reward of the first timestep, which the
\* container has replaced since.
C16_OldRecordKept ==
    /\ pc = "update"
    /\ i_episode = 1
    /\ t = 1
    /\ memory.steps = <<1, 2>>
    /\ args.batch_size = 2
    /\ memory.states[1] # items_batch.inp_graph
    /\ memory.states[2] # items_batch.inp_graph
    /\ memory.rewards[1] # items_batch.reward
    /\ memory.is_terminals[1] # items_batch.done

\* The log-probabilities the buffer holds are those of the old policy.
LogprobsOfOldPolicy ==
    \A i \in DOMAIN memory.logprobs : \A b \in DOMAIN memory.logprobs[i] :
       memory.logprobs[i][b] = LogProb(policy_old, memory.states[i][b], memory.actions[i][b])

\* C17: PPO.update goes from the bootstrap to the returns, to k_epochs
\* epochs, to the scheduler step, to the synchronisation, and returns.  The
\* bootstrap and the returns change no policy; an epoch is one gradient step
\* on the current policy and leaves the old policy and the buffer alone, and
\* its ratios are taken against the recorded log-probabilities, which are
\* the old policy's; the scheduler steps once if there is one; the
\* synchronisation copies the current policy, k_epochs steps ahead, into the
\* old one.
C17_UpdateOrder ==
    /\ [][pc = "update" =>
             /\ pc' = "returns"
             /\ UNCHANGED <<policyVars, memory>>]_vars
    /\ [][pc = "returns" =>
             /\ pc' = "epochs"
             /\ epoch' = 0
             /\ UNCHANGED <<policyVars, memory>>]_vars
    /\ [][(pc = "epochs" /\ epoch < args.k_epochs) =>
             /\ pc' = "epochs"
             /\ epoch' = epoch + 1
             /\ policy' = OptimizerStep(policy)
             /\ ratios' = LogRatios(memory, policy)
             /\ UNCHANGED <<policy_old, lr_steps, memory>>]_vars
    /\ [][(pc = "epochs" /\ epoch >= args.k_epochs) =>
             /\ epoch = args.k_epochs
             /\ pc' = "sync"
             /\ lr_steps' = lr_steps + (IF args.lr_scheduler THEN 1 ELSE 0)
             /\ UNCHANGED <<policy, policy_old, memory>>]_vars
    /\ [][pc = "sync" =>
             /\ pc' = "clear"
             /\ policy_old' = policy
             /\ n_updates' = n_updates + 1
             /\ UNCHANGED <<policy, lr_steps, memory>>]_vars
    /\ [](pc \in {"update", "returns", "epochs", "sync"} =>
             /\ LogprobsOfOldPolicy
             /\ policy.version = policy_old.version + epoch
             /\ lr_steps = IF args.lr_scheduler
                           THEN n_updates + (IF pc = "sync" THEN 1 ELSE 0) ELSE 0)

\* C17 witness: the second update of a run with a scheduler is about to
\* synchronise, two epochs after the rollout.
C17_TwoEpochsThenSync ==
    /\ pc = "sync"
    /\ args.k_epochs = 2
    /\ args.lr_scheduler
    /\ n_updates = 1
    /\ lr_steps = 2
    /\ epoch = 2
    /\ policy.version = policy_old.version + 2
    /\ LogprobsOfOldPolicy

RECURSIVE SeqMax(_)
SeqMax(seq) ==
    IF Len(seq) = 1 THEN seq[1]
    ELSE IF seq[1] >= SeqMax(Tail(seq)) THEN seq[1] ELSE SeqMax(Tail(seq))

\* C19: an evaluation is made at the end of every test_interval-th episode
\* and of no other; it writes a checkpoint, and sets best_test_ratio to its
\* mean ratio, exactly if that ratio is greater than best_test_ratio;
\* nothing else writes a checkpoint or changes best_test_ratio, which never
\* decreases, is 0 while there is no checkpoint and the greatest ratio of
\* the checkpoints otherwise.
C19_CheckpointIffBetter ==
    /\ [][evals' # evals =>
             /\ pc = "test"
             /\ i_episode % args.test_interval = 0
             /\ Len(evals') = Len(evals) + 1
             /\ IF Last(evals') > best_test_ratio
                THEN /\ best_test_ratio' = Last(evals')
                     /\ saved' = Append(saved, Last(evals'))
                ELSE /\ best_test_ratio' = best_test_ratio
                     /\ saved' = saved]_vars
    /\ [][evals' = evals => (saved' = saved /\ best_test_ratio' = best_test_ratio)]_vars
    /\ [][best_test_ratio' >= best_test_ratio]_vars
    /\ [](best_test_ratio = IF saved = <<>> THEN 0 ELSE SeqMax(saved))
    /\ [](pc \in {"episode", "done"} => Len(evals) = i_episode \div args.test_interval)

\* C19 witness: three evaluations with mean ratios 1, 1 and 2 wrote two
\* checkpoints, for 1 and for 2.
C19_TwoCheckpoints ==
    /\ pc = "done"
    /\ evals = <<1, 1, 2>>
    /\ saved = <<1, 2>>
    /\ best_test_ratio = 2

\* ------------------------------------------------------------ PPO.update on any window
\* The windows the return recursion is run on: T timesteps of B slots, the
\* rewards and done flags free, the states those of step t of graph b.
WindowStates(T, B) ==
    [i \in 1..T |-> [b \in 1..B |-> [graph |-> b - 1, scheduled |-> i - 1]]]

WindowMemory(T, B, rs, ts) ==
    [NewMemory EXCEPT
        !.states = WindowStates(T, B),
        !.candidates = [i \in 1..T |-> [b \in 1..B |-> NodeCandidates(WindowStates(T, B)[i][b])]],
        !.actions = [i \in 1..T |-> [b \in 1..B |-> i - 1]],
        !.logprobs = [i \in 1..T |-> [b \in 1..B |-> -1]],
        !.rewards = rs,
        !.is_terminals = ts,
        !.steps = [i \in 1..T |-> i]]

\* The scripted scenario of the spec: batch size 2, three timesteps, rewards
\* [1, 0, 5] and [0, 0, 1], done on both slots at the last timestep only.
ScriptedRewards == << <<1, 0>>, <<0, 0>>, <<5, 1>> >>
ScriptedTerminals == << <<FALSE, FALSE>>, <<FALSE, FALSE>>, <<TRUE, TRUE>> >>
ScriptedMemory == WindowMemory(Len(ScriptedRewards), Len(ScriptedRewards[1]), ScriptedRewards, ScriptedTerminals)

\* The parameters the update is run with: finite ones, and diverged ones.
ParamSamples ==
    {Params(v, "finite") : v \in 0..2} \cup {Params(0, "nan"), Params(0, "inf")}

InitReturn ==
    /\ \E B \in BatchSizes :
          /\ args = [batch_size |-> B, max_episodes |-> 1, max_timesteps |-> 1,
                     update_timestep |-> 1, k_epochs |-> 1, lr_scheduler |-> FALSE]
          /\ \/ \E T \in 1..MaxWindow :
                   \E rs \in [1..T -> [1..B -> RewardVals]], ts \in [1..T -> [1..B -> BOOLEAN]] :
                      memory = WindowMemory(T, B, rs, ts)
             \/ B = Len(ScriptedRewards[1]) /\ memory = ScriptedMemory
    /\ policy \in ParamSamples
    /\ policy_old = policy
    /\ pc = "update"
    /\ i_episode = 1
    /\ t = 0
    /\ timestep = Len(memory.steps)
    /\ items_batch = NewContainer
    /\ action_batch = <<>>
    /\ calls = <<>>
    /\ step_list = <<>>
    /\ discounted_reward = <<>>
    /\ rewards = <<>>
    /\ epoch = 0
    /\ ratios = <<>>
    /\ lr_steps = 0
    /\ consumed = [s \in 1..(MaxWindow + MaxSteps) |-> 0]
    /\ n_updates = 0
    /\ n_clears = 0
    /\ snap = NoCaller
    /\ call = NoCaller
    /\ cfg = NoCaller
    /\ summary_writer = NoWriter
    /\ sink = 0
    /\ best_test_ratio = 0
    /\ evals = <<>>
    /\ saved = <<>>
    /\ surr = NoCaller

NextReturn ==
    \/ UpdBootstrap
    \/ UpdReturns

SpecReturn == InitReturn /\ [][NextReturn]_vars

\* ------------------------------------------------------------ claims on the returns
\* The critic's value of the last recorded state of slot b, under self.policy.
Bootstrap(b) == StateValue(policy, Last(memory.states)[b])

\* What the recursion carries back into timestep i of slot b: the return of
\* timestep i + 1, or the bootstrap value at the last timestep.
Carried(i, b) == IF i = Len(memory.rewards) THEN Bootstrap(b) ELSE rewards[i + 1][b]

Slots == 1..args.batch_size

\* C4 as stated: wherever done is true the return is the reward of that
\* timestep, whatever the bootstrap value and the later records are.
C4_TerminalReturnIsReward ==
    pc = "epochs" =>
        \A i \in DOMAIN rewards : \A b \in Slots :
            memory.is_terminals[i][b] => rewards[i][b] = Fin(memory.rewards[i][b] * Unit)

\* C4 amended: wherever done is true and the value carried back into that
\* timestep is finite, the return is the reward of that timestep; a carried
\* NaN or infinity is not masked (x * 0 is NaN) and makes the return NaN.
C4_TerminalReturnIsRewardIfFinite ==
    pc = "epochs" =>
        /\ Len(rewards) = Len(memory.rewards)
        /\ \A i \in DOMAIN rewards : \A b \in Slots :
              memory.is_terminals[i][b] =>
                  IF Carried(i, b).k = "fin"
                  THEN rewards[i][b] = Fin(memory.rewards[i][b] * Unit)
                  ELSE rewards[i][b] = NaN

\* C4 witness: a done step before the end of the window whose return is its
\* reward although the next return and the bootstrap value are not 0.
C4_MaskedStep ==
    /\ pc = "epochs"
    /\ \E i \in DOMAIN rewards : \E b \in Slots :
          /\ i < Len(rewards)
          /\ memory.is_terminals[i][b]
          /\ Carried(i, b).k = "fin" /\ Carried(i, b).v # 0
          /\ Bootstrap(b).k = "fin" /\ Bootstrap(b).v # 0
          /\ rewards[i][b] = Fin(memory.rewards[i][b] * Unit)

\* The returns of the scripted scenario: [2.25, 2.5, 5] and [0.25, 0.5, 1].
ScriptedReturns ==
    << <<Fin((9 * Unit) \div 4), Fin(Unit \div 4)>>,
       <<Fin((5 * Unit) \div 2), Fin(Unit \div 2)>>,
       <<Fin(5 * Unit), Fin(Unit)>> >>

\* C5 as stated, its scenario: the scripted window gives the scripted returns
\* whatever the bootstrap value is.
C5_ScriptedReturnsAnyBootstrap ==
    pc = "epochs" /\ memory = ScriptedMemory => rewards = ScriptedReturns

\* C5 amended: the tail is the value the critic of the current policy gives
\* the last recorded state, before any gradient step; with finite values
\* R_t = reward[t] + gamma * (1 - done[t]) * R_{t+1} for every timestep in the
\* original order; and the scripted window gives the scripted returns for
\* every finite bootstrap value.
C5_ReturnRecurrence ==
    /\ pc = "returns" =>
          /\ discounted_reward = [b \in Slots |-> Bootstrap(b)]
          /\ epoch = 0
          /\ policy = policy_old
    /\ pc = "epochs" =>
          /\ Len(rewards) = Len(memory.rewards)
          /\ \A i \in DOMAIN rewards : \A b \in Slots :
                Carried(i, b).k = "fin" =>
                    /\ rewards[i][b].k = "fin"
                    /\ gamma.den * rewards[i][b].v =
                          gamma.den * memory.rewards[i][b] * Unit
                          + (IF memory.is_terminals[i][b] THEN 0
                             ELSE gamma.num * Carried(i, b).v)
          /\ (memory = ScriptedMemory /\ \A b \in Slots : Bootstrap(b).k = "fin")
                => rewards = ScriptedReturns

\* C5 witness: the scripted returns, reached with a bootstrap value that is
\* not 0.
C5_ScriptedRun ==
    /\ pc = "epochs"
    /\ memory = ScriptedMemory
    /\ \E b \in Slots : Bootstrap(b).k = "fin" /\ Bootstrap(b).v # 0
    /\ rewards = ScriptedReturns

\* ------------------------------------------------------------ the clipped surrogate
Abs(x) == IF x < 0 THEN -x ELSE x

\* A clamp that returns its input.
ClampNone(x, lo, hi) == x

\* torch.clamp(x, lo, hi)
Clamp(x, lo, hi) == IF x < lo THEN lo ELSE IF x > hi THEN hi ELSE x

\* surr1, surr2 and torch.min(surr1, surr2) of one element of the flat batch:
\* ratio and eps_clip in 1/RatioDen, the products in advantage/RatioDen.
Surrogate(ratio, advantage, eps_clip) ==
    [kind |-> "done", ratio |-> ratio, advantage |-> advantage, eps_clip |-> eps_clip,
     surr1 |-> ratio * advantage,
     surr2 |-> Clamp(ratio, RatioDen - eps_clip, RatioDen + eps_clip) * advantage,
     min |-> Min(ratio * advantage,
                 Clamp(ratio, RatioDen - eps_clip, RatioDen + eps_clip) * advantage)]

InitSurr ==
    /\ args = [batch_size |-> 1, max_episodes |-> 1, max_timesteps |-> 1,
               update_timestep |-> 1, k_epochs |-> 1, lr_scheduler |-> FALSE]
    /\ pc = "epochs"
    /\ i_episode = 1
    /\ t = 0
    /\ timestep = 1
    /\ items_batch = NewContainer
    /\ memory = NewMemory
    /\ action_batch = <<>>
    /\ calls = <<>>
    /\ step_list = <<>>
    /\ policy = Params(0, "finite")
    /\ policy_old = Params(0, "finite")
    /\ discounted_reward = <<>>
    /\ rewards = <<>>
    /\ epoch = 0
    /\ ratios = <<>>
    /\ lr_steps = 0
    /\ consumed = [s \in 1..MaxSteps |-> 0]
    /\ n_updates = 0
    /\ n_clears = 0
    /\ snap = NoCaller
    /\ call = NoCaller
    /\ cfg = NoCaller
    /\ summary_writer = NoWriter
    /\ sink = 0
    /\ best_test_ratio = 0
    /\ evals = <<>>
    /\ saved = <<>>
    /\ surr \in [kind : {"input"}, ratio : 1..MaxRatio,
                 advantage : (-MaxAdvantage)..MaxAdvantage, eps_clip : 1..(RatioDen - 1)]

\* Lines 192-194 on one element.
SurrogateStep ==
    /\ surr.kind = "input"
    /\ surr' = Surrogate(surr.ratio, surr.advantage, surr.eps_clip)
    /\ UNCHANGED <<args, pc, driverVars, memory, policyVars, updateVars,
                   historyVars, callerVars, cfg, evalVars>>

SpecSurr == InitSurr /\ [][SurrogateStep]_vars

\* (1 + eps_clip) * |advantage|, in advantage/RatioDen.
SurrBound == (RatioDen + surr.eps_clip) * Abs(surr.advantage)

SurrDone == surr.kind = "done"

\* C7 as stated: the term lies in [-|A|(1+eps), |A|(1+eps)] and is at most
\* ratio * A.
C7_SurrogateWithinBand ==
    SurrDone =>
        /\ -SurrBound <= surr.min
        /\ surr.min <= SurrBound
        /\ surr.min <= surr.surr1

\* C7 amended: the term is at most ratio * A and at most |A|(1+eps); it is at
\* least -|A|(1+eps) when A >= 0 or ratio <= 1+eps; for A < 0 and
\* ratio > 1+eps it is ratio * A, below -|A|(1+eps).
C7_SurrogateUpperBand ==
    SurrDone =>
        /\ surr.min <= surr.surr1
        /\ surr.min <= SurrBound
        /\ (surr.advantage >= 0 \/ surr.ratio <= RatioDen + surr.eps_clip)
              => -SurrBound <= surr.min
        /\ (surr.advantage < 0 /\ surr.ratio > RatioDen + surr.eps_clip)
              => surr.min = surr.ratio * surr.advantage /\ surr.min < -SurrBound
        /\ (surr.advantage > 0 /\ surr.ratio > RatioDen + surr.eps_clip)
              => surr.min = SurrBound /\ surr.min < surr.surr1

\* C7 witness: a negative advantage with a ratio above 1 + eps_clip, and a
\* term below the band.
C7_UnclippedBelowBand ==
    /\ SurrDone
    /\ surr.advantage < 0
    /\ surr.ratio > RatioDen + surr.eps_clip
    /\ surr.min < -SurrBound

\* ------------------------------------------------------------ ItemsContainer and its callers
\* SpecContainer: a caller makes any sequence of append and update calls,
\* fetches a snapshot through a read accessor, mutates it, and drops it
\* before its next call.

\* The values a caller passes for each field.
FieldVals(f) ==
    CASE f = "reward" -> RewardVals
      [] f = "inp_graph" -> {[graph |-> 0, scheduled |-> 0], [graph |-> 0, scheduled |-> 1]}
      [] f = "makespan" -> {0, 1}
      [] f = "node_candidates" -> {<<>>, <<1>>}
      [] f = "done" -> BOOLEAN

\* The fields whose elements are objects that can be mutated in place.
NestedFields == {"inp_graph", "node_candidates"}

\* A keyword argument of update: left out, or one of the field's values.
OptArgs(f) == {NoArg} \cup {Arg(x) : x \in FieldVals(f)}

\* The most slots a container gets: the largest batch size.
MaxSlots == CHOOSE b \in BatchSizes : \A x \in BatchSizes : x <= b

NumSlots(c) == Len(c.reward)

\* An element object mutated in place: a graph schedules or unschedules a
\* task, a candidate list is cleared or gets a candidate.
MutateElement(f, e) ==
    IF f = "inp_graph" THEN [e EXCEPT !.scheduled = 1 - @]
    ELSE IF e = <<>> THEN <<1>> ELSE <<>>

RemoveAt(lst, i) == SubSeq(lst, 1, i - 1) \o SubSeq(lst, i + 1, Len(lst))

\* What a caller can do to the list it holds.
Mutations(ref) ==
    [op : {"replace"}, i : DOMAIN ref.val, x : FieldVals(ref.field)]
    \cup (IF Len(ref.val) <= MaxSlots
          THEN [op : {"append"}, x : FieldVals(ref.field)] ELSE {})
    \cup [op : {"remove"}, i : DOMAIN ref.val]
    \cup (IF ref.field \in NestedFields THEN [op : {"nested"}, i : DOMAIN ref.val] ELSE {})

\* The container after the list a reference stands for has got content val.
Through(c, ref, val) ==
    IF ref.kind = "list" THEN [c EXCEPT ![ref.field] = val] ELSE c

\* The caller's list, and the container, after mutation m of the list.
Mutate(c, ref, m) ==
    CASE m.op = "replace" ->
            [c |-> Through(c, ref, [ref.val EXCEPT ![m.i] = m.x]),
             ref |-> [ref EXCEPT !.val[m.i] = m.x, !.src[m.i] = 0]]
      [] m.op = "append" ->
            [c |-> Through(c, ref, Append(ref.val, m.x)),
             ref |-> [ref EXCEPT !.val = Append(@, m.x), !.src = Append(@, 0)]]
      [] m.op = "remove" ->
            [c |-> Through(c, ref, RemoveAt(ref.val, m.i)),
             ref |-> [ref EXCEPT !.val = RemoveAt(@, m.i), !.src = RemoveAt(@, m.i)]]
      [] m.op = "nested" ->
            [c |-> IF ref.src[m.i] = 0 THEN c
                   ELSE [c EXCEPT ![ref.field][ref.src[m.i]] = MutateElement(ref.field, @)],
             ref |-> [ref EXCEPT !.val[m.i] = MutateElement(ref.field, @)]]

idleVars == <<args, pc, i_episode, t, timestep, memory, action_batch, calls, step_list,
              policyVars, updateVars, historyVars, surr, evalVars>>

InitContainer ==
    /\ args = [batch_size |-> 1, max_episodes |-> 1, max_timesteps |-> 1,
               update_timestep |-> 1, k_epochs |-> 1, lr_scheduler |-> FALSE]
    /\ pc = "done"
    /\ i_episode = 1
    /\ t = 0
    /\ timestep = 0
    /\ items_batch = NewContainer
    /\ memory = NewMemory
    /\ action_batch = <<>>
    /\ calls = <<>>
    /\ step_list = <<>>
    /\ policy = Params(0, "finite")
    /\ policy_old = Params(0, "finite")
    /\ discounted_reward = <<>>
    /\ rewards = <<>>
    /\ epoch = 0
    /\ ratios = <<>>
    /\ lr_steps = 0
    /\ consumed = [s \in 1..MaxSteps |-> 0]
    /\ n_updates = 0
    /\ n_clears = 0
    /\ snap = NoCaller
    /\ call = NoCaller
    /\ cfg = NoCaller
    /\ summary_writer = NoWriter
    /\ sink = 0
    /\ best_test_ratio = 0
    /\ evals = <<>>
    /\ saved = <<>>
    /\ surr = NoCaller

\* items_batch.append(reward, inp_graph, makespan, node_candidates, done)
CallAppend ==
    /\ call = NoCaller
    /\ snap = NoCaller
    /\ NumSlots(items_batch) < MaxSlots
    /\ \E reward \in FieldVals("reward"), inp_graph \in FieldVals("inp_graph"),
          makespan \in FieldVals("makespan"),
          node_candidates \in FieldVals("node_candidates"), done \in FieldVals("done") :
          items_batch' = ContainerAppend(items_batch, reward, inp_graph, makespan,
                                         node_candidates, done)
    /\ call' = [kind |-> "append"]
    /\ UNCHANGED <<idleVars, snap, cfg>>

\* items_batch.update(idx, ...) with any of the keyword arguments.
CallUpdate ==
    /\ call = NoCaller
    /\ snap = NoCaller
    /\ \E idx \in (-NumSlots(items_batch) - 1)..NumSlots(items_batch),
          reward \in OptArgs("reward"), inp_graph \in OptArgs("inp_graph"),
          makespan \in OptArgs("makespan"),
          node_candidates \in OptArgs("node_candidates"), done \in OptArgs("done") :
          /\ ~UpdateRaises(items_batch, idx, reward, inp_graph, makespan,
                           node_candidates, done)
          /\ items_batch' = ContainerUpdate(items_batch, idx, reward, inp_graph, makespan,
                                            node_candidates, done)
          /\ call' = [kind |-> "update", idx |-> idx,
                      args |-> [reward |-> reward, inp_graph |-> inp_graph,
                                makespan |-> makespan,
                                node_candidates |-> node_candidates, done |-> done]]
    /\ UNCHANGED <<idleVars, snap, cfg>>

\* items_batch.update(idx, ...) that raises IndexError.
CallUpdateRaises ==
    /\ call = NoCaller
    /\ snap = NoCaller
    /\ \E idx \in (-NumSlots(items_batch) - 1)..NumSlots(items_batch),
          reward \in OptArgs("reward"), inp_graph \in OptArgs("inp_graph"),
          makespan \in OptArgs("makespan"),
          node_candidates \in OptArgs("node_candidates"), done \in OptArgs("done") :
          /\ UpdateRaises(items_batch, idx, reward, inp_graph, makespan,
                          node_candidates, done)
          /\ call' = [kind |-> "raise", idx |-> idx]
    /\ UNCHANGED <<idleVars, items_batch, snap, cfg>>

\* x = items_batch.<f>
CallGet ==
    /\ call = NoCaller
    /\ snap = NoCaller
    /\ \E f \in Fields : snap' = Accessor(items_batch, f)
    /\ call' = [kind |-> "get"]
    /\ UNCHANGED <<idleVars, items_batch, cfg>>

\* The caller mutates the list it holds.
MutateSnapshot ==
    /\ call = NoCaller
    /\ snap # NoCaller
    /\ \E m \in Mutations(snap) :
          /\ items_batch' = Mutate(items_batch, snap, m).c
          /\ snap' = Mutate(items_batch, snap, m).ref
          /\ call' = [kind |-> "mutate", op |-> m.op]
    /\ UNCHANGED <<idleVars, cfg>>

\* The caller drops the list.
DropSnapshot ==
    /\ call = NoCaller
    /\ snap # NoCaller
    /\ snap' = NoCaller
    /\ call' = [kind |-> "drop"]
    /\ UNCHANGED <<idleVars, items_batch, cfg>>

\* The call returns to the caller.
Return ==
    /\ call # NoCaller
    /\ call' = NoCaller
    /\ UNCHANGED <<idleVars, items_batch, snap, cfg>>

NextContainer ==
    \/ CallAppend
    \/ CallUpdate
    \/ CallUpdateRaises
    \/ CallGet
    \/ MutateSnapshot
    \/ DropSnapshot
    \/ Return

SpecContainer == InitContainer /\ [][NextContainer]_vars

\* The content of a fresh snapshot of every field.
FreshSnapshots(c) == [f \in Fields |-> Deref(c, Accessor(c, f))]

\* C8: a read accessor returns the content of the container's list and
\* leaves the container alone; no mutation of the returned list (replacing,
\* appending or removing an element, mutating an element in place) changes
\* the container or what a fresh snapshot of any field holds.
C8_SnapshotsAreIndependent ==
    [][/\ call'.kind = "get" =>
            /\ items_batch' = items_batch
            /\ Deref(items_batch', snap') = items_batch[snap'.field]
       /\ call'.kind = "mutate" =>
            /\ items_batch' = items_batch
            /\ FreshSnapshots(items_batch') = FreshSnapshots(items_batch)]_vars

\* C8 witness: after appends and an update, an element of a snapshot of two
\* slots was mutated in place, and the snapshot differs from the container.
C8_NestedMutationDone ==
    /\ call.kind = "mutate"
    /\ call.op = "nested"
    /\ snap.field = "inp_graph"
    /\ Len(snap.val) = MaxSlots
    /\ NumSlots(items_batch) = MaxSlots
    /\ snap.val # items_batch.inp_graph
    /\ items_batch.reward[1] # items_batch.reward[2]

\* C9: an update call that returns replaces, in slot idx, every supplied
\* field by the supplied value, falsy or not, and leaves every other field
\* of the slot, every other slot and the number of slots as they were.
C9_UpdateReplacesSuppliedFields ==
    [][call'.kind = "update" =>
         \A f \in Fields :
            /\ Len(items_batch'[f]) = Len(items_batch[f])
            /\ \A j \in DOMAIN items_batch[f] :
                  items_batch'[f][j] =
                     IF j = PyIndex(items_batch[f], call'.idx) /\ call'.args[f] # NoArg
                     THEN call'.args[f][1]
                     ELSE items_batch[f][j]]_vars

\* C9 witness: an update of slot 0 of two supplied reward 0 and done False
\* and nothing else; the slot holds them, next to a makespan of 1 it kept
\* and another slot with reward 1 and done True.
C9_FalsyValuesStored ==
    /\ call.kind = "update"
    /\ call.idx = 0
    /\ call.args = [reward |-> Arg(0), inp_graph |-> NoArg, makespan |-> NoArg,
                    node_candidates |-> NoArg, done |-> Arg(FALSE)]
    /\ NumSlots(items_batch) = MaxSlots
    /\ items_batch.reward = <<0, 1>>
    /\ items_batch.done = <<FALSE, TRUE>>
    /\ items_batch.makespan[1] = 1

\* ------------------------------------------------------------ parse_arguments
\* SpecConfig: the program is started with or without --config, with or
\* without python -O, and the config file holds any keys.

\* The most keys of a config file.
MaxKeys == 2

\* The options parse_arguments adds to the parser.
Options ==
    {"scheduler_type", "resource_limit", "add_graph_features", "num_init_dags",
     "gamma", "train_sample", "test_sample", "search_size", "learning_rate",
     "lr_steps", "batch_size", "betas", "max_episodes", "max_timesteps",
     "update_timestep", "k_epochs", "eps_clip", "one_hot_degree", "batch_norm",
     "node_output_size", "gnn_layers", "config", "random_seed", "test_interval",
     "log_interval", "test_model_weight"}

\* Attributes every argparse.Namespace has besides the parsed options.
NamespaceAttrs ==
    {"__doc__", "__module__", "__class__", "__dict__", "__weakref__",
     "_get_kwargs", "_get_args"}

\* hasattr(args, key)
HasAttr(key) == key \in Options \cup NamespaceAttrs

\* setattr(args, key, val) raises for an attribute that takes a class or a
\* dict only, or cannot be set.
SetAttrRaises(key) == key \in {"__class__", "__dict__", "__weakref__"}

\* The keys a config file is made of.
ConfigKeys == {"gamma", "batch_size", "unknown_key", "__doc__", "__class__"}

\* cfg_dict.items(): the keys of a mapping, each once, in file order.
ConfigFiles ==
    {f \in UNION {[1..n -> ConfigKeys] : n \in 0..MaxKeys} :
        \A i, j \in DOMAIN f : i # j => f[i] # f[j]}

InitConfig ==
    /\ args = [batch_size |-> 1, max_episodes |-> 1, max_timesteps |-> 1,
               update_timestep |-> 1, k_epochs |-> 1, lr_scheduler |-> FALSE]
    /\ pc = "done"
    /\ i_episode = 1
    /\ t = 0
    /\ timestep = 0
    /\ items_batch = NewContainer
    /\ memory = NewMemory
    /\ action_batch = <<>>
    /\ calls = <<>>
    /\ step_list = <<>>
    /\ policy = Params(0, "finite")
    /\ policy_old = Params(0, "finite")
    /\ discounted_reward = <<>>
    /\ rewards = <<>>
    /\ epoch = 0
    /\ ratios = <<>>
    /\ lr_steps = 0
    /\ consumed = [s \in 1..MaxSteps |-> 0]
    /\ n_updates = 0
    /\ n_clears = 0
    /\ snap = NoCaller
    /\ call = NoCaller
    /\ summary_writer = NoWriter
    /\ sink = 0
    /\ best_test_ratio = 0
    /\ evals = <<>>
    /\ saved = <<>>
    /\ surr = NoCaller
    /\ \E file \in {NoArg} \cup {Arg(f) : f \in ConfigFiles}, optimize \in BOOLEAN :
          cfg = [kind |-> "config", file |-> file, optimize |-> optimize,
                 at |-> "parse", keys |-> <<>>, set |-> {}, error |-> "none"]

configIdle == <<idleVars, items_batch, snap, call>>

\* `if args.config:` is false.
ConfigAbsent ==
    /\ cfg.kind = "config"
    /\ cfg.at = "parse"
    /\ cfg.file = NoArg
    /\ cfg' = [cfg EXCEPT !.at = "print"]
    /\ UNCHANGED configIdle

\* yaml.load of a file with no keys is None, and None has no items().
ConfigEmpty ==
    /\ cfg.kind = "config"
    /\ cfg.at = "parse"
    /\ cfg.file = Arg(<<>>)
    /\ cfg' = [cfg EXCEPT !.at = "raised", !.error = "AttributeError"]
    /\ UNCHANGED configIdle

\* cfg_dict = yaml.load(f)
ConfigLoaded ==
    /\ cfg.kind = "config"
    /\ cfg.at = "parse"
    /\ IsNotNone(cfg.file)
    /\ cfg.file # Arg(<<>>)
    /\ cfg' = [cfg EXCEPT !.at = "loop", !.keys = cfg.file[1]]
    /\ UNCHANGED configIdle

\* assert hasattr(args, key) fails; python -O compiles no assert.
AssertFails ==
    /\ cfg.kind = "config"
    /\ cfg.at = "loop"
    /\ cfg.keys # <<>>
    /\ ~cfg.optimize
    /\ ~HasAttr(Head(cfg.keys))
    /\ cfg' = [cfg EXCEPT !.at = "raised", !.error = "AssertionError"]
    /\ UNCHANGED configIdle

\* setattr(args, key, val)
SetAttr ==
    /\ cfg.kind = "config"
    /\ cfg.at = "loop"
    /\ cfg.keys # <<>>
    /\ cfg.optimize \/ HasAttr(Head(cfg.keys))
    /\ ~SetAttrRaises(Head(cfg.keys))
    /\ cfg' = [cfg EXCEPT !.keys = Tail(@), !.set = @ \cup {Head(cfg.keys)}]
    /\ UNCHANGED configIdle

\* setattr(args, key, val) raises.
SetAttrFails ==
    /\ cfg.kind = "config"
    /\ cfg.at = "loop"
    /\ cfg.keys # <<>>
    /\ cfg.optimize \/ HasAttr(Head(cfg.keys))
    /\ SetAttrRaises(Head(cfg.keys))
    /\ cfg' = [cfg EXCEPT !.at = "raised", !.error = "TypeError"]
    /\ UNCHANGED configIdle

\* The loop over cfg_dict.items() ends.
ConfigApplied ==
    /\ cfg.kind = "config"
    /\ cfg.at = "loop"
    /\ cfg.keys = <<>>
    /\ cfg' = [cfg EXCEPT !.at = "print"]
    /\ UNCHANGED configIdle

\* print_args(args); return args
ParseReturns ==
    /\ cfg.kind = "config"
    /\ cfg.at = "print"
    /\ cfg' = [cfg EXCEPT !.at = "returned"]
    /\ UNCHANGED configIdle

\* main(parse_arguments()): main starts on the namespace returned.
MainRuns ==
    /\ cfg.kind = "config"
    /\ cfg.at = "returned"
    /\ cfg' = [cfg EXCEPT !.at = "main"]
    /\ UNCHANGED configIdle

NextConfig ==
    \/ ConfigAbsent
    \/ ConfigEmpty
    \/ ConfigLoaded
    \/ AssertFails
    \/ SetAttr
    \/ SetAttrFails
    \/ ConfigApplied
    \/ ParseReturns
    \/ MainRuns

SpecConfig == InitConfig /\ [][NextConfig]_vars

\* C10: with a config file that holds a key that is no recognised option,
\* parse_arguments neither returns nor does main run.
C10_UnknownKeyFailsBeforeMain ==
    (IsNotNone(cfg.file) /\ \E key \in Range(cfg.file[1]) : key \notin Options)
        => cfg.at \notin {"returned", "main"}

====
